---- MODULE Spec2Model ----
(***************************************************************************)
(* Model of tools.py: the nearest-index lookups nn / nnDt (classes         *)
(* NearestIndex, NearestDtIndex) and get_increment_path.                   *)
(*                                                                         *)
(* Values.  A reference series is a numpy array, modelled as               *)
(* [kind, vals]: kind is "num" (numbers) or "dt" (datetime objects, held   *)
(* as whole seconds after an epoch t0), vals the elements in index order.  *)
(* A query is [shape, kind, vals]: shape "scalar" (one bare value, vals of *)
(* length 1) or "list" (a Python list, the sequence type the constructors  *)
(* test for).  Indices are zero-based as in Python.                        *)
(*                                                                         *)
(* An outcome is [tag, val, exc]: tag "index" (val = <<i>>), "array"       *)
(* (val = the indices), "raise" (exc = the exception's class), "value" (a  *)
(* bound element) or "none".  A path is the sequence of its characters.    *)
(***************************************************************************)
EXTENDS Integers, Sequences, FiniteSets, TLC

VARIABLES fr, heap, fs, gp

vars == <<fr, heap, fs, gp>>

(***************************************************************************)
(* Bounds of the model.                                                    *)
(***************************************************************************)
MaxLen == 4
MaxQ == 3
TMaxLen == 2
TMaxQ == 2
MaxI == 3

Kinds == {"num", "dt"}
Fns == {"nn", "nnDt"}
Threads == {1, 2}

\* Element values of reference series and of queries, per kind.  The numeric
\* ones hold spec example [5, 3, 3, 8] / 3, the timestamps [t0, t0+60s,
\* t0+120s] / t0+50s; 4 and t0+90s lie midway between two reference values.
RefVals(kind) == IF kind = "num" THEN {3, 5, 8} ELSE {0, 60, 120}
QVals(kind) == IF kind = "num" THEN {3, 4} ELSE {50, 90}

\* The values of the two threads' calls.
TRefVals(kind) == IF kind = "num" THEN {3, 5} ELSE {0, 60}
TQVals(kind) == IF kind = "num" THEN {3} ELSE {50}

SeqsUpTo(S, n) == UNION {[1..m -> S] : m \in 0..n}

\* The reference series of kind k over the values S, of length 0..n.
RefsOver(k, S, n) == {[kind |-> k, vals |-> s] : s \in SeqsUpTo(S, n)}
Refs(n) == UNION {RefsOver(k, RefVals(k), n) : k \in Kinds}

\* The queries of kind k over the values S: every bare value, every list of
\* length 0..n.
QueriesOver(k, S, n) ==
  {[shape |-> "scalar", kind |-> k, vals |-> <<v>>] : v \in S}
    \cup {[shape |-> "list", kind |-> k, vals |-> s] : s \in SeqsUpTo(S, n)}
Queries(n) == UNION {QueriesOver(k, QVals(k), n) : k \in Kinds}

(***************************************************************************)
(* Outcomes.                                                               *)
(***************************************************************************)
None == [tag |-> "none", val |-> <<>>, exc |-> ""]
Value(v) == [tag |-> "value", val |-> <<v>>, exc |-> ""]
Index(i) == [tag |-> "index", val |-> <<i>>, exc |-> ""]
Array(s) == [tag |-> "array", val |-> s, exc |-> ""]
Raise(e) == [tag |-> "raise", val |-> <<>>, exc |-> e]

(***************************************************************************)
(* Arithmetic on elements.  A number is <<v>>; a timedelta is the          *)
(* normalised triple <<days, seconds, microseconds>> Python keeps, with    *)
(* 0 <= seconds < 86400 and days possibly negative.                        *)
(***************************************************************************)
Abs(n) == IF n < 0 THEN -n ELSE n

\* datetime - datetime: the normalised timedelta of the difference.
timedelta(secs) == <<secs \div 86400, secs % 86400, 0>>

\* timedelta.seconds alone: the seconds within the day.
seconds_only(td) == td[2]

\* timedelta.total_seconds(): days * 86400 + seconds + microseconds / 10^6,
\* a whole number here, the timestamps being whole seconds.
total_seconds(td) == td[1] * 86400 + td[2] + td[3] \div 1000000

\* a - b for two elements: [ok, kind of the result, value] .
SubCoerce(ka, a, kb, b) == [ok |-> TRUE, kind |-> "num", t |-> <<a - b>>]
Sub(ka, a, kb, b) ==
  IF ka # kb THEN [ok |-> FALSE, kind |-> "TypeError", t |-> <<>>]
  ELSE IF ka = "num" THEN [ok |-> TRUE, kind |-> "num", t |-> <<a - b>>]
  ELSE [ok |-> TRUE, kind |-> "td", t |-> timedelta(a - b)]

\* The order key of a difference: numbers by value, timedeltas by their
\* (days, seconds, microseconds) tuple, which orders as the total does.
Key(d) == IF d.kind = "td" THEN total_seconds(d.t) ELSE d.t[1]

\* np.min over a non-empty sequence of keys (a left-to-right reduction).
RECURSIVE np_max(_)
np_max(s) ==
  IF Len(s) = 1 THEN s[1]
  ELSE LET m == np_max(Tail(s)) IN IF s[1] > m THEN s[1] ELSE m

RECURSIVE np_min(_)
np_min(s) ==
  IF Len(s) = 1 THEN s[1]
  ELSE LET m == np_min(Tail(s)) IN IF s[1] < m THEN s[1] ELSE m

\* np.where(delta == m)[0]: the zero-based positions holding m, ascending.
RECURSIVE WhereFrom(_, _, _)
WhereFrom(s, m, i) ==
  IF i > Len(s) THEN <<>>
  ELSE (IF s[i] = m THEN <<i - 1>> ELSE <<>>) \o WhereFrom(s, m, i + 1)

np_where(s, m) == WhereFrom(s, m, 1)

\* np.where(delta == np.min(delta))[0][0]
where_last(delta) == LET w == np_where(delta, np_min(delta)) IN w[Len(w)]
where_first(delta) == np_where(delta, np_min(delta))[1]

(***************************************************************************)
(* The lookups.  Elt(k, v) is one element of kind k.                       *)
(***************************************************************************)
Elt(k, v) == [kind |-> k, v |-> v]

\* np.size(x): 1 for a bare value, the number of elements of a list.
np_size(x) == IF x.shape = "scalar" THEN 1 ELSE Len(x.vals)

\* NearestIndex.get_nearest_index(arr, x), x one element:
\*   delta = abs(arr - x); idx = np.where(delta == np.min(delta))[0][0]
\* arr - x subtracts element by element (a TypeError when an element and x
\* do not subtract); over no element np.min raises ValueError.
get_nearest_index(arr, x) ==
  LET N == Len(arr.vals)
      diff == [i \in 1..N |-> Sub(arr.kind, arr.vals[i], x.kind, x.v)]
      delta == [i \in 1..N |-> Abs(Key(diff[i]))]
  IN IF N > 0 /\ ~diff[1].ok THEN Raise("TypeError")
     ELSE IF N = 0 THEN Raise("ValueError")
     ELSE Index(where_first(delta))

\* NearestDtIndex.get_nearestDt_index(Dtarr, Dt), Dt one element:
\*   delta = np.array([abs((iDt - Dt).total_seconds()) for iDt in Dtarr])
\*   idx = np.where(delta == np.min(delta))[0][0]
\* A difference of two numbers is a number and has no total_seconds.
get_nearestDt_index(Dtarr, Dt) ==
  LET N == Len(Dtarr.vals)
      diff == [i \in 1..N |-> Sub(Dtarr.kind, Dtarr.vals[i], Dt.kind, Dt.v)]
      delta == [i \in 1..N |-> Abs(total_seconds(diff[i].t))]
  IN IF N > 0 /\ ~diff[1].ok THEN Raise("TypeError")
     ELSE IF N > 0 /\ diff[1].kind # "td" THEN Raise("AttributeError")
     ELSE IF N = 0 THEN Raise("ValueError")
     ELSE Index(where_first(delta))

\* One element's lookup of function fn.
lookup(fn, arr, x) ==
  IF fn = "nn" THEN get_nearest_index(arr, x) ELSE get_nearestDt_index(arr, x)

SetMin(S) == CHOOSE m \in S : \A n \in S : m <= n

\* get_nearest_indice / get_nearestDt_indice: the list comprehension
\*   np.array([self.get_nearest_index(arr, ix) for ix in x])
\* in the order order(M) visits the M elements; the first lookup that
\* raises ends it.
Comprehension(fn, arr, x, order) ==
  LET M == Len(x.vals)
      r == [k \in 1..M |-> lookup(fn, arr, Elt(x.kind, x.vals[order[k]]))]
      bad == {k \in 1..M : r[k].tag = "raise"}
  IN IF bad # {} THEN r[SetMin(bad)]
     ELSE Array([k \in 1..M |-> r[k].val[1]])

Reversed(fn, arr, x) ==
  Comprehension(fn, arr, x, [k \in 1..Len(x.vals) |-> Len(x.vals) + 1 - k])
get_nearest_indice(fn, arr, x) ==
  Comprehension(fn, arr, x, [k \in 1..Len(x.vals) |-> k])

\* The test `np.size(x) > 1` of both constructors.
IsManyOrOne(x) == np_size(x) >= 1 /\ x.shape = "list"
IsMany(x) == np_size(x) > 1

\* `if type(x) is list or type(x) is np.array: x = x[0]`: the local name x
\* is bound anew (lx); the caller's object (x) is not touched.  x[0] of an
\* empty list raises IndexError (lx stays unbound: None).
RebindInPlace(f) ==
  IF f.x.shape = "list" /\ Len(f.x.vals) > 0
  THEN [f EXCEPT !.lx = Value(f.x.vals[1]),
                 !.x = [shape |-> "scalar", kind |-> f.x.kind, vals |-> <<f.x.vals[1]>>]]
  ELSE f
Rebind(f) ==
  IF f.x.shape = "list"
  THEN (IF Len(f.x.vals) > 0 THEN [f EXCEPT !.lx = Value(f.x.vals[1])] ELSE f)
  ELSE [f EXCEPT !.lx = Value(f.x.vals[1])]

\* NearestIndex.__init__ / NearestDtIndex.__init__ on frame f: the frame
\* after it and the value it assigns to self.idx (or the exception raised).
init(f) ==
  IF IsMany(f.x)
  THEN [frame |-> f, idx |-> get_nearest_indice(f.fn, f.arr, f.x)]
  ELSE LET g == Rebind(f) IN
       IF g.lx.tag = "none" THEN [frame |-> g, idx |-> Raise("IndexError")]
       ELSE [frame |-> g, idx |-> lookup(g.fn, g.arr, Elt(g.x.kind, g.lx.val[1]))]

\* nn(arr, x) / nnDt(Dtarr, Dt) run alone, start to end.
nn(fn, arr, x) ==
  init([fn |-> fn, arr |-> arr, x |-> x, lx |-> None, pc |-> "init", ret |-> None]).idx

(***************************************************************************)
(* The calls as processes.  Each thread runs calls one after another; a    *)
(* call binds its arguments and creates its object (Call), runs the        *)
(* constructor, which assigns self.idx (Construct), and returns            *)
(* nearest.idx, the object going out of scope (Return).  An exception of   *)
(* the constructor ends the call.  heap[o] is attribute idx of object o.   *)
(***************************************************************************)
Idle ==
  [fn |-> "nn", arr |-> [kind |-> "num", vals |-> <<>>],
   x |-> [shape |-> "list", kind |-> "num", vals |-> <<>>],
   lx |-> None, pc |-> "idle", ret |-> None]

\* The object `nearest` of thread t's call: each call constructs its own.
SharedObject(t) == 1
SelfOf(t) == t

Call(t, fns, refs, queries) ==
  /\ fr[t].pc = "idle"
  /\ \E fn \in fns, arr \in refs, x \in queries :
       fr' = [fr EXCEPT ![t] = [fn |-> fn, arr |-> arr, x |-> x, lx |-> None,
                                pc |-> "init", ret |-> None]]
  /\ heap' = [heap EXCEPT ![SelfOf(t)] = None]
  /\ UNCHANGED <<fs, gp>>

Construct(t) ==
  /\ fr[t].pc = "init"
  /\ LET r == init(fr[t]) IN
       IF r.idx.tag = "raise"
       THEN /\ fr' = [fr EXCEPT ![t] = [r.frame EXCEPT !.pc = "done", !.ret = r.idx]]
            /\ heap' = heap
       ELSE /\ fr' = [fr EXCEPT ![t] = [r.frame EXCEPT !.pc = "ret"]]
            /\ heap' = [heap EXCEPT ![SelfOf(t)] = r.idx]
  /\ UNCHANGED <<fs, gp>>

Return(t) ==
  /\ fr[t].pc = "ret"
  /\ fr' = [fr EXCEPT ![t].pc = "done", ![t].ret = heap[SelfOf(t)]]
  /\ heap' = [heap EXCEPT ![SelfOf(t)] = None]
  /\ UNCHANGED <<fs, gp>>

Reset(t) ==
  /\ fr[t].pc = "done"
  /\ fr' = [fr EXCEPT ![t] = Idle]
  /\ UNCHANGED <<heap, fs, gp>>

(***************************************************************************)
(* get_increment_path.  fs is the set of paths that exist; it does not     *)
(* change while the function runs.                                         *)
(***************************************************************************)
EtcIssue == <<"/", "e", "t", "c", "/", "i", "s", "s", "u", "e">>
Bla == <<"w", "h", "a", "t", "e", "v", "e", "r", "/", "1", "3", "3", "7", "b", "l", "a", ".", "p", "y">>
Bashrc == <<".", "b", "a", "s", "h", "r", "c">>
EtcIssueDoc == <<"/", "e", "t", "c", "/", "i", "s", "s", "u", "e", "-", "1">>

Paths == {EtcIssue, Bla, Bashrc}

\* str.rfind(c): the last position of c in p (1-based), 0 when absent.
rfind(p, c) ==
  LET at == {j \in 1..Len(p) : p[j] = c}
  IN IF at = {} THEN 0 ELSE CHOOSE j \in at : \A n \in at : n <= j

\* os.path.splitext(p): the extension starts at the last dot of the last
\* component, unless only dots precede it there.
splitext(p) ==
  LET sepIndex == rfind(p, "/")
      dotIndex == rfind(p, ".")
  IN IF dotIndex > sepIndex /\ \E j \in (sepIndex + 1)..(dotIndex - 1) : p[j] # "."
     THEN <<SubSeq(p, 1, dotIndex - 1), SubSeq(p, dotIndex, Len(p))>>
     ELSE <<p, <<>> >>

\* str(i), i >= 0: the decimal digits.
Digit(d) == CASE d = 0 -> "0" [] d = 1 -> "1" [] d = 2 -> "2" [] d = 3 -> "3"
              [] d = 4 -> "4" [] d = 5 -> "5" [] d = 6 -> "6" [] d = 7 -> "7"
              [] d = 8 -> "8" [] d = 9 -> "9"
RECURSIVE str(_)
str(i) == IF i < 10 THEN <<Digit(i)>> ELSE str(i \div 10) \o <<Digit(i % 10)>>

\* "{}_{}{}".format(filename, i, file_extension)
format(filename, i, file_extension) == filename \o <<"_">> \o str(i) \o file_extension

Candidate(p, i) == format(splitext(p)[1], i, splitext(p)[2])

\* The paths that may exist while p is incremented.
FilesOf(p) == {p, EtcIssueDoc} \cup {Candidate(p, i) : i \in 1..MaxI}

GpIdle ==
  [pc |-> "idle", fname_path |-> <<>>, filename |-> <<>>, file_extension |-> <<>>,
   i |-> 0, new_fname |-> <<>>, ret |-> <<>>]

GipCall ==
  /\ gp.pc = "idle"
  /\ \E p \in Paths : gp' = [GpIdle EXCEPT !.pc = "check", !.fname_path = p]
  /\ UNCHANGED <<fr, heap, fs>>

\* if not os.path.exists(fname_path): return fname_path
GipReturnSame ==
  /\ gp.pc = "check"
  /\ gp.fname_path \notin fs
  /\ gp' = [gp EXCEPT !.pc = "done", !.ret = gp.fname_path]
  /\ UNCHANGED <<fr, heap, fs>>

\* filename, file_extension = os.path.splitext(fname_path); i = 1;
\* new_fname = "{}_{}{}".format(filename, i, file_extension)
GipFirst ==
  /\ gp.pc = "check"
  /\ gp.fname_path \in fs
  /\ LET se == splitext(gp.fname_path) IN
       gp' = [gp EXCEPT !.pc = "loop", !.filename = se[1], !.file_extension = se[2],
                        !.i = 1, !.new_fname = format(se[1], 1, se[2])]
  /\ UNCHANGED <<fr, heap, fs>>

\* while os.path.exists(new_fname): i += 1; new_fname = ...
GipLoop ==
  /\ gp.pc = "loop"
  /\ gp.new_fname \in fs
  /\ gp' = [gp EXCEPT !.i = gp.i + 1,
                      !.new_fname = format(gp.filename, gp.i + 1, gp.file_extension)]
  /\ UNCHANGED <<fr, heap, fs>>

\* return new_fname
GipReturnNew ==
  /\ gp.pc = "loop"
  /\ gp.new_fname \notin fs
  /\ gp' = [gp EXCEPT !.pc = "done", !.ret = gp.new_fname]
  /\ UNCHANGED <<fr, heap, fs>>

(***************************************************************************)
(* Specifications.                                                         *)
(*   Spec        one caller of nn / nnDt, every combination of function,   *)
(*               reference series and query, call after call;              *)
(*   SpecThreads two threads calling nn / nnDt, their steps interleaved;   *)
(*   SpecPath    get_increment_path over every file system of FilesOf.     *)
(***************************************************************************)
InitCalls ==
  /\ fr = [t \in Threads |-> Idle]
  /\ heap = [t \in Threads |-> None]

Init ==
  /\ InitCalls
  /\ fs = {}
  /\ gp = GpIdle

CallAny(t) == Call(t, Fns, Refs(MaxLen), Queries(MaxQ))

Next ==
  \E t \in {1} : CallAny(t) \/ Construct(t) \/ Return(t) \/ Reset(t)

Spec == Init /\ [][Next]_vars

\* The threads' calls: nn on numbers and nnDt on timestamps.
CallNum(t) ==
  Call(t, {"nn"}, RefsOver("num", TRefVals("num"), TMaxLen),
       QueriesOver("num", TQVals("num"), TMaxQ))
CallDt(t) ==
  Call(t, {"nnDt"}, RefsOver("dt", TRefVals("dt"), TMaxLen),
       QueriesOver("dt", TQVals("dt"), TMaxQ))

NextThreads ==
  \E t \in Threads : CallNum(t) \/ CallDt(t) \/ Construct(t) \/ Return(t) \/ Reset(t)

SpecThreads == Init /\ [][NextThreads]_vars

InitPath ==
  /\ InitCalls
  /\ fs \in UNION {SUBSET FilesOf(p) : p \in Paths}
  /\ gp = GpIdle

NextPath == GipCall \/ GipReturnSame \/ GipFirst \/ GipLoop \/ GipReturnNew

SpecPath == InitPath /\ [][NextPath]_vars

\* The scheduler runs a started call to its end.
FairPath == SpecPath /\ WF_vars(NextPath)

(***************************************************************************)
(* The claims.  F is the frame of the one caller of Spec.  The distance of *)
(* the claims is stated on the values themselves: the absolute difference  *)
(* of two numbers, the absolute number of seconds between two instants.    *)
(***************************************************************************)
F == fr[1]
Done == F.pc = "done"
N == Len(F.arr.vals)
M == np_size(F.x)

\* The names the specification gives the two failures.
InvalidInput == "ValueError"
TypeMismatch == "TypeError"

Distance(a, b) == Abs(a - b)

\* The indices of R at minimum distance from q.
Nearest(R, q) ==
  {i \in 0..(Len(R) - 1) :
     \A j \in 0..(Len(R) - 1) : Distance(R[i + 1], q) <= Distance(R[j + 1], q)}

\* The call is one the function is made for: nn on numbers or timestamps of
\* one kind, nnDt on timestamps, over a non-empty reference series.
Supported ==
  /\ N >= 1
  /\ F.arr.kind = F.x.kind
  /\ F.fn = "nnDt" => F.arr.kind = "dt"

ScalarQ(k, v) == [shape |-> "scalar", kind |-> k, vals |-> <<v>>]

\* C1: for a non-empty numeric reference series and a single numeric query,
\* nn returns an index of the series (0..N-1) whose element is at minimum
\* absolute difference from the query.
C1_NearestNumeric ==
  (Done /\ F.fn = "nn" /\ F.arr.kind = "num" /\ F.x.kind = "num"
        /\ F.x.shape = "scalar" /\ N >= 1)
  => /\ F.ret.tag = "index"
     /\ F.ret.val[1] \in 0..(N - 1)
     /\ \A j \in 1..N :
          Abs(F.arr.vals[F.ret.val[1] + 1] - F.x.vals[1]) <= Abs(F.arr.vals[j] - F.x.vals[1])

C1_Witness ==
  /\ Done /\ F.fn = "nn" /\ F.arr = [kind |-> "num", vals |-> <<8, 5, 3>>]
  /\ F.x = ScalarQ("num", 4)
  /\ F.ret = Index(1)

\* The result of a finished call, one index per query element (a single
\* index is held as <<i>>).
PerElement == F.ret.val

\* C2: when several indices tie for the minimum distance, nn and nnDt return
\* the smallest of them, for every element of the query; for reference
\* [5, 3, 3, 8] and query 3 the result is 1.
C2_FirstOfTies ==
  (Done /\ Supported /\ M >= 1)
  => /\ F.ret.tag \in {"index", "array"}
     /\ Len(PerElement) = M
     /\ \A k \in 1..M : PerElement[k] = SetMin(Nearest(F.arr.vals, F.x.vals[k]))
     /\ (F.arr.vals = <<5, 3, 3, 8>> /\ F.x = ScalarQ("num", 3)) => F.ret = Index(1)

C2_Witness ==
  /\ Done /\ F.fn = "nn" /\ F.arr = [kind |-> "num", vals |-> <<5, 3, 3, 8>>]
  /\ F.x = ScalarQ("num", 3)
  /\ Cardinality(Nearest(F.arr.vals, 3)) = 2
  /\ F.ret = Index(1)

\* C3 as stated: a single query yields a single index, a sequence query of
\* any length M >= 1 a sequence of exactly M indices.
C3_ShapeAsStated ==
  (Done /\ Supported)
  => /\ F.x.shape = "scalar" => F.ret.tag = "index"
     /\ (F.x.shape = "list" /\ M >= 1) => (F.ret.tag = "array" /\ Len(F.ret.val) = M)

\* C3 as the code has it: a single query and a sequence query of length 1
\* yield a single index; a sequence query of length M >= 2 yields a sequence
\* of exactly M indices, the k-th a nearest index of the k-th query element.
C3_Shape ==
  (Done /\ Supported)
  => /\ (F.x.shape = "scalar" \/ M = 1) => F.ret.tag = "index"
     /\ (F.x.shape = "list" /\ M >= 2)
          => /\ F.ret.tag = "array"
             /\ Len(F.ret.val) = M
             /\ \A k \in 1..M : F.ret.val[k] \in Nearest(F.arr.vals, F.x.vals[k])

C3_Witness ==
  /\ Done /\ F.fn = "nn" /\ F.arr = [kind |-> "num", vals |-> <<5, 3>>]
  /\ F.x = [shape |-> "list", kind |-> "num", vals |-> <<3, 4>>]
  /\ F.ret = Array(<<1, 0>>)

\* C4 as stated: for every sequence query Q the k-th element of nn(R, Q) is
\* nn(R, Q[k]), for every position k (likewise nnDt).
C4_BatchAsStated ==
  (Done /\ Supported /\ F.x.shape = "list" /\ M >= 1)
  => /\ F.ret.tag = "array"
     /\ Len(F.ret.val) = M
     /\ \A k \in 1..M :
          Index(F.ret.val[k]) = nn(F.fn, F.arr, ScalarQ(F.x.kind, F.x.vals[k]))

\* C4 as the code has it: for a sequence query Q of length M >= 2 the k-th
\* element of nn(R, Q) is nn(R, Q[k]); for length 1, nn(R, Q) is the single
\* index nn(R, Q[0]) itself (likewise nnDt).
C4_Batch ==
  (Done /\ Supported /\ F.x.shape = "list" /\ M >= 1)
  => IF M >= 2
     THEN /\ F.ret.tag = "array"
          /\ Len(F.ret.val) = M
          /\ \A k \in 1..M :
               Index(F.ret.val[k]) = nn(F.fn, F.arr, ScalarQ(F.x.kind, F.x.vals[k]))
     ELSE F.ret.tag = "index" /\ F.ret = nn(F.fn, F.arr, ScalarQ(F.x.kind, F.x.vals[1]))

C4_Witness ==
  /\ Done /\ F.fn = "nnDt" /\ F.arr = [kind |-> "dt", vals |-> <<120, 0, 60>>]
  /\ F.x = [shape |-> "list", kind |-> "dt", vals |-> <<50, 90, 50>>]
  /\ F.ret = Array(<<2, 0, 2>>)

\* C5: for a non-empty series of timestamps and a single timestamp query,
\* nnDt returns an index whose timestamp is at the minimum absolute number
\* of elapsed seconds from the query; for [t0, t0+60s, t0+120s] and t0+50s
\* the result is 1.
C5_NearestTimestamp ==
  (Done /\ F.fn = "nnDt" /\ F.arr.kind = "dt" /\ F.x.kind = "dt"
        /\ F.x.shape = "scalar" /\ N >= 1)
  => /\ F.ret.tag = "index"
     /\ F.ret.val[1] \in Nearest(F.arr.vals, F.x.vals[1])
     /\ (F.arr.vals = <<0, 60, 120>> /\ F.x.vals = <<50>>) => F.ret = Index(1)

C5_Witness ==
  /\ Done /\ F.fn = "nnDt" /\ F.arr = [kind |-> "dt", vals |-> <<0, 60, 120>>]
  /\ F.x = ScalarQ("dt", 50)
  /\ F.ret = Index(1)

\* C6: with an empty reference series nn and nnDt fail with InvalidInput for
\* any query, a single value or a sequence of any length, and return no
\* index.
C6_EmptyReference ==
  (Done /\ N = 0) => F.ret = Raise(InvalidInput)

\* What the code does on an empty reference series: it always raises, the
\* ValueError of np.min but for an empty list query, whose x[0] raises first.
EmptyReferenceRaises ==
  (Done /\ N = 0)
  => F.ret = (IF F.x.shape = "list" /\ M = 0 THEN Raise("IndexError") ELSE Raise(InvalidInput))

\* C7: a query of one kind against a (non-empty) reference series of the
\* other kind makes nn and nnDt fail with TypeMismatch; no index is returned.
C7_TypeMismatch ==
  (Done /\ N >= 1 /\ M >= 1 /\ F.arr.kind # F.x.kind) => F.ret = Raise(TypeMismatch)

C7_Witness ==
  /\ Done /\ F.fn = "nnDt" /\ F.arr = [kind |-> "dt", vals |-> <<0, 60>>]
  /\ F.x = ScalarQ("num", 3)
  /\ F.ret = Raise(TypeMismatch)

\* C8: nn and nnDt are pure: a running call leaves its reference series and
\* its query as they were passed, and two finished calls with identical
\* inputs, whatever calls were made in between, have identical results.
SameInputsSameResult ==
  \A s, t \in Threads :
    (fr[s].pc = "done" /\ fr[t].pc = "done" /\ fr[s].fn = fr[t].fn
       /\ fr[s].arr = fr[t].arr /\ fr[s].x = fr[t].x)
    => fr[s].ret = fr[t].ret

ArgsUnchanged ==
  \A t \in Threads :
    fr[t].pc \in {"init", "ret"} => (fr'[t].arr = fr[t].arr /\ fr'[t].x = fr[t].x)

C8_Pure == []SameInputsSameResult /\ [][ArgsUnchanged]_vars

C8_Witness ==
  /\ fr[1].pc = "done" /\ fr[2].pc = "done"
  /\ fr[1].fn = fr[2].fn /\ fr[1].arr = fr[2].arr /\ fr[1].x = fr[2].x
  /\ fr[1].x.shape = "list"
  /\ fr[1].ret = Index(1)

\* C9: calls interleaved from two threads do not interfere: every call
\* returns what it returns when run alone.
C9_NoInterference ==
  \A t \in Threads :
    fr[t].pc = "done" => fr[t].ret = nn(fr[t].fn, fr[t].arr, fr[t].x)

\* Both calls are between their constructor and their return, and thread 2
\* then returns an index other than the one thread 1 holds.
C9_Witness ==
  /\ fr[1].pc = "ret" /\ fr[2].pc = "ret"
  /\ heap[SelfOf(1)] = Index(0) /\ heap[SelfOf(2)] = Index(1)

\* C10: get_increment_path(p) returns a path that does not exist: p itself
\* when p does not exist, otherwise the first candidate of the counter
\* i = 1, 2, ... that does not exist, which the docstring gives as
\* '/etc/issue-1' for an existing '/etc/issue'.
C10_IncrementPath ==
  gp.pc = "done"
  => /\ gp.ret \notin fs
     /\ gp.fname_path \notin fs => gp.ret = gp.fname_path
     /\ gp.fname_path \in fs
          => \E i \in 1..(Cardinality(fs) + 1) :
               /\ gp.ret = Candidate(gp.fname_path, i)
               /\ \A j \in 1..(i - 1) : Candidate(gp.fname_path, j) \in fs
     /\ (gp.fname_path = EtcIssue /\ fs = {EtcIssue}) => gp.ret = EtcIssueDoc

\* What the code does: the same, the candidates being those of its format
\* string, '/etc/issue_1' for an existing '/etc/issue'.
IncrementPathOfCode ==
  gp.pc = "done"
  => /\ gp.ret \notin fs
     /\ gp.fname_path \notin fs => gp.ret = gp.fname_path
     /\ gp.fname_path \in fs
          => \E i \in 1..(Cardinality(fs) + 1) :
               /\ gp.ret = Candidate(gp.fname_path, i)
               /\ \A j \in 1..(i - 1) : Candidate(gp.fname_path, j) \in fs

\* A started call of get_increment_path ends.
IncrementPathEnds == (gp.pc = "check") ~> (gp.pc = "done")

====
